---- MODULE Spec2Model ----
(***************************************************************************)
(* Raspitherm: the pin actuation and connection layer of                   *)
(* BaseRaspiHomeDevice (utils.py) and the HTTP listener built on it        *)
(* (raspitherm_listener.py).                                               *)
(*                                                                         *)
(* Three specifications share the variables:                               *)
(*   Spec        calls of write / read / pulse_on / pulse_if_different on  *)
(*               a device whose interface is absent, connected or not;     *)
(*   SpecConn    calls of get_or_build_interface / generate_new_interface; *)
(*   SpecServer  GET requests handled by the twisted reactor.              *)
(*                                                                         *)
(* Python values: None is the integer -1 (pins are positive, pin levels    *)
(* are 0 / 1); an exception is the string of its class name, "none" when   *)
(* nothing was raised.  pigpio is a library outside the repository: a call *)
(* into it is an input of the action (the outcome the daemon produced).    *)
(***************************************************************************)
EXTENDS Integers, Sequences, FiniteSets, TLC

VARIABLES
    eps,      \* every PiPinInterface object ever constructed, by identity 1..Len(eps)
    iface,    \* BaseRaspiHomeDevice.iface: 0 for None, else an index of eps
    level,    \* the daemon's pin levels, pin -> 0 / 1
    call,     \* the pin call that ran last: its arguments, effects and outcome
    conn,     \* the interface call that ran last, likewise
    hs,       \* the GET requests in the server: handler -> its position and locals
    running,  \* the request the reactor thread is rendering, 0 when it is free
    resp      \* the response sent last

serverVars == <<hs, running, resp>>
vars == <<eps, iface, level, call, conn, hs, running, resp>>

-----------------------------------------------------------------------------
(* Values and configuration *)

None == -1

\* raspitherm_listener.py DEFAULTS
hw_toggle_pin == 5
cw_toggle_pin == 26
hw_status_pin == 22
cw_status_pin == 27
pulse_duration_ms == 200

TogglePins == {hw_toggle_pin, cw_toggle_pin}
StatusPins == {hw_status_pin, cw_status_pin}
Pins == TogglePins \cup StatusPins

\* the status input wired to the relay a toggle output drives
StatusOf(pin) == IF pin = hw_toggle_pin THEN hw_status_pin ELSE cw_status_pin

\* arguments the calls are tried with
PinArgs   == Pins \cup {None}
ValueArgs == {0, 1}
StateArgs == {None, 0, 1}
Durations == {-200, 0, pulse_duration_ms}

\* outcomes of one pigpio call: it worked, or it raised
Faults == {"ok", "IOError", "AttributeError", "pigpio.error"}

\* bool(x) of Python for None and the integers
BoolOf(x) == x # None /\ x # 0

\* one effect of a call: e names it, a and b are its integer operands
Ev(e, a, b) == [e |-> e, a |-> a, b |-> b]

\* what pigpio.pi.write / read does with the arguments: a pin of None cannot be
\* packed into the command (struct.error) before anything is sent
DaemonOutcome(pin, fault) == IF pin = None THEN "struct.error" ELSE fault

-----------------------------------------------------------------------------
(* The physical side: a level written to a toggle output; its rising edge   *)
(* flips the bistable relay, which the status input reports.               *)

Physical(lv, pin, value) ==
    IF pin \notin DOMAIN lv THEN lv
    ELSE IF pin \in TogglePins /\ lv[pin] = 0 /\ value = 1
         THEN [lv EXCEPT ![pin] = 1, ![StatusOf(pin)] = 1 - lv[StatusOf(pin)]]
         ELSE [lv EXCEPT ![pin] = value]

-----------------------------------------------------------------------------
(* BaseRaspiHomeDevice.write / read / pulse_on / pulse_if_different.        *)
(* d is the device as the call finds it: [iface, connected, level].        *)
(* A result is [ret, raised, tr, level].                                   *)

Dev(i, e, lv) ==
    [iface |-> i, connected |-> IF i = 0 THEN FALSE ELSE e[i].connected, level |-> lv]

\* read() as it would be with the except clause of write(): pigpio.error escapes
ReadCaughtAsWrite == {"AttributeError", "IOError"}

WriteCaught == {"AttributeError", "IOError"}
ReadCaught  == {"AttributeError", "IOError", "pigpio.error"}

\* write() as it would be without the test of self.iface.connected
write_unguarded(d, pin, value, fault) ==
    LET out == DaemonOutcome(pin, fault)
        att == <<Ev("write", pin, value)>>
    IN  IF d.iface = 0
        THEN [ret |-> None, raised |-> "AttributeError", tr |-> att, level |-> d.level]
        ELSE IF out \in {"AttributeError", "IOError"}
        THEN [ret |-> value, raised |-> "none",
              tr |-> att \o <<Ev("iface.write", pin, value), Ev("log.error", pin, value)>>,
              level |-> d.level]
        ELSE [ret |-> IF out = "ok" THEN value ELSE None,
              raised |-> IF out = "ok" THEN "none" ELSE out,
              tr |-> att \o <<Ev("iface.write", pin, value)>>,
              level |-> IF out = "ok" THEN Physical(d.level, pin, value) ELSE d.level]

write(d, pin, value, fault) ==
    LET out == DaemonOutcome(pin, fault)
        att == <<Ev("write", pin, value)>>
    IN  IF d.iface = 0
        THEN \* self.iface is None: self.iface.connected raises outside the try
             [ret |-> None, raised |-> "AttributeError", tr |-> att, level |-> d.level]
        ELSE IF d.connected
        THEN IF out = "ok"
             THEN [ret |-> value, raised |-> "none",
                   tr |-> att \o <<Ev("iface.write", pin, value)>>,
                   level |-> Physical(d.level, pin, value)]
             ELSE IF out \in WriteCaught
             THEN [ret |-> value, raised |-> "none",
                   tr |-> att \o <<Ev("iface.write", pin, value), Ev("log.error", pin, value)>>,
                   level |-> d.level]
             ELSE [ret |-> None, raised |-> out,
                   tr |-> att \o <<Ev("iface.write", pin, value)>>,
                   level |-> d.level]
        ELSE [ret |-> value, raised |-> "none",
              tr |-> att \o <<Ev("log.error", pin, value)>>,
              level |-> d.level]

\* read() as it would be without the test of self.iface.connected
read_unguarded(d, pin, fault) ==
    LET out == DaemonOutcome(pin, fault)
        att == <<Ev("read", pin, 0)>>
    IN  IF d.iface = 0
        THEN [ret |-> None, raised |-> "AttributeError", tr |-> att, level |-> d.level]
        ELSE IF out = "ok"
        THEN [ret |-> d.level[pin], raised |-> "none",
              tr |-> att \o <<Ev("iface.read", pin, d.level[pin])>>,
              level |-> d.level]
        ELSE IF out \in ReadCaught
        THEN [ret |-> 0, raised |-> "none",
              tr |-> att \o <<Ev("iface.read", pin, None), Ev("log.error", pin, 0)>>,
              level |-> d.level]
        ELSE [ret |-> None, raised |-> out,
              tr |-> att \o <<Ev("iface.read", pin, None)>>,
              level |-> d.level]

read(d, pin, fault) ==
    LET out == DaemonOutcome(pin, fault)
        att == <<Ev("read", pin, 0)>>
    IN  IF d.iface = 0
        THEN [ret |-> None, raised |-> "AttributeError", tr |-> att, level |-> d.level]
        ELSE IF d.connected
        THEN IF out = "ok"
             THEN [ret |-> d.level[pin], raised |-> "none",
                   tr |-> att \o <<Ev("iface.read", pin, d.level[pin])>>,
                   level |-> d.level]
             ELSE IF out \in ReadCaught
             THEN [ret |-> 0, raised |-> "none",
                   tr |-> att \o <<Ev("iface.read", pin, None), Ev("log.error", pin, 0)>>,
                   level |-> d.level]
             ELSE [ret |-> None, raised |-> out,
                   tr |-> att \o <<Ev("iface.read", pin, None)>>,
                   level |-> d.level]
        ELSE [ret |-> 0, raised |-> "none",
              tr |-> att \o <<Ev("log.error", pin, 0)>>,
              level |-> d.level]

\* time.sleep(duration_ms / 1000.0): a negative length is refused
sleep(ms) == IF ms < 0 THEN "IOError" ELSE "none"

pulse_on(d, pin, duration_ms, f1, f2) ==
    LET w1 == write(d, pin, 1, f1)
        d1 == [d EXCEPT !.level = w1.level]
        s  == sleep(duration_ms)
        t1 == w1.tr \o <<Ev("sleep", duration_ms, 0)>>
        w2 == write(d1, pin, 0, f2)
    IN  IF w1.raised # "none" THEN w1
        ELSE IF s # "none"
        THEN [ret |-> None, raised |-> s, tr |-> t1, level |-> w1.level]
        ELSE IF w2.raised # "none"
        THEN [w2 EXCEPT !.tr = t1 \o w2.tr]
        ELSE [ret |-> duration_ms, raised |-> "none", tr |-> t1 \o w2.tr, level |-> w2.level]

\* the comparison as it would be on the values themselves: None differs from 0
ShouldPulseByValue(current, intended) == current # intended

\* line 235: bool(current) ^ bool(intended)
ShouldPulse(current, intended) == BoolOf(current) # BoolOf(intended)

pulse_if_different(d, current, intended, output_pin, duration_ms, f1, f2) ==
    LET complaint == IF current = None \/ intended = None \/ output_pin = None
                     THEN <<Ev("log.error", output_pin, 0)>> ELSE <<>>
        p == pulse_on(d, output_pin, duration_ms, f1, f2)
    IN  IF ShouldPulse(current, intended)
        THEN [ret |-> None, raised |-> p.raised, tr |-> complaint \o p.tr, level |-> p.level]
        ELSE [ret |-> None, raised |-> "none", tr |-> complaint, level |-> d.level]

-----------------------------------------------------------------------------
(* Endpoints: PiPinInterface, get_or_build_interface, generate_new_interface *)

Hosts == {"localhost", "hostB"}
Ports == {8888, 8889}

\* the configured targets: pi_host may be empty and pig_port 0 (both falsy)
HostArgs == Hosts \cup {""}
PortArgs == Ports \cup {0}

\* outcomes of pigpio.pi.stop() that generate_new_interface absorbs
StopFaults == {"ok", "IOError", "AttributeError"}

\* how many PiPinInterface objects a run constructs
MaxEndpoints == 2

\* unicode(x): the text of a host name or of a port number
Unicode(x) == ToString(x)

\* PiPinInterface(params): pigpio.pi(params['pi_host'], params['pig_port']).
\* pigpio takes an empty host as localhost; a connect that fails raises
\* nothing and leaves connected False.
Endpoint(host, port, ok) ==
    [host |-> IF host = "" THEN "localhost" ELSE host, port |-> port,
     opened |-> ok, connected |-> ok, stopped |-> FALSE, handled |-> FALSE]

\* pigpio.pi.stop(): connected becomes False first, whatever follows
Stopped(ep) == [ep EXCEPT !.connected = FALSE, !.stopped = TRUE]

\* the check as it would be without the test of interface.connected
need_without_connected(e, pi_host, pig_port, interface) ==
    IF interface = 0 THEN TRUE
    ELSE \/ (pi_host # "" /\ ToString(pi_host) # ToString(e[interface].host))
         \/ (pig_port # 0 /\ ToString(pig_port) # ToString(e[interface].port))

\* lines 254-282 of get_or_build_interface.  Every PiPinInterface carries _host,
\* get_port() and connected, so the AttributeError branches are not taken.
need_to_generate_new_interface(e, pi_host, pig_port, interface) ==
    IF interface = 0 THEN TRUE
    ELSE \/ (pi_host # "" /\ Unicode(pi_host) # Unicode(e[interface].host))
         \/ (pig_port # 0 /\ Unicode(pig_port) # Unicode(e[interface].port))
         \/ ~e[interface].connected

\* the rebuild as it would be if a failed connect were raised as an error
\* instead of being installed
generate_new_interface_raising(e, i, pi_host, pig_port, stopFault, ok) ==
    LET e1  == IF i = 0 THEN e ELSE [e EXCEPT ![i] = [e[i] EXCEPT !.connected = FALSE, !.stopped = TRUE]]
        t1  == IF i = 0 THEN <<>> ELSE <<Ev("stop", i, 0)>>
        new == Len(e) + 1
        made == Append(e1, [host |-> pi_host, port |-> pig_port, opened |-> ok,
                            connected |-> ok, stopped |-> FALSE, handled |-> TRUE])
    IN  IF ok
        THEN [eps |-> made, iface |-> new, ret |-> new, raised |-> "none",
              tr |-> t1 \o <<Ev("connect", new, 1)>>]
        ELSE [eps |-> made, iface |-> i, ret |-> None, raised |-> "ConnectionError",
              tr |-> t1 \o <<Ev("connect", new, 0)>>]

\* A result is [eps, iface, ret, raised, tr]; tr holds Ev("stop", endpoint, 0)
\* and Ev("connect", endpoint, 1 if it connected else 0).
generate_new_interface(e, i, pi_host, pig_port, stopFault, ok) ==
    LET e1  == IF i = 0 THEN e ELSE [e EXCEPT ![i] = Stopped(e[i])]
        t1  == IF i = 0 THEN <<>> ELSE <<Ev("stop", i, 0)>>
        new == Len(e) + 1
        absorbed == i = 0 \/ stopFault \in StopFaults
    IN  IF absorbed
        THEN [eps |-> Append(e1, [Endpoint(pi_host, pig_port, ok) EXCEPT !.handled = TRUE]),
              iface |-> new, ret |-> new, raised |-> "none",
              tr |-> t1 \o <<Ev("connect", new, IF ok THEN 1 ELSE 0)>>]
        ELSE [eps |-> e1, iface |-> i, ret |-> None, raised |-> stopFault, tr |-> t1]

\* the call as it would be if the keep branch returned the given endpoint
\* without storing it in self.iface
get_or_build_without_install(e, i, pi_host, pig_port, interface, stopFault, ok) ==
    LET e0 == IF interface = 0 THEN e ELSE [e EXCEPT ![interface].handled = TRUE]
    IN  IF need_to_generate_new_interface(e0, pi_host, pig_port, interface)
        THEN generate_new_interface(e0, i, pi_host, pig_port, stopFault, ok)
        ELSE [eps |-> e0, iface |-> i, ret |-> interface, raised |-> "none", tr |-> <<>>]

get_or_build_interface(e, i, pi_host, pig_port, interface, stopFault, ok) ==
    LET e0 == IF interface = 0 THEN e ELSE [e EXCEPT ![interface].handled = TRUE]
    IN  IF need_to_generate_new_interface(e0, pi_host, pig_port, interface)
        THEN generate_new_interface(e0, i, pi_host, pig_port, stopFault, ok)
        ELSE [eps |-> e0, iface |-> interface, ret |-> interface, raised |-> "none",
              tr |-> <<>>]

\* what a call found in the place of an endpoint when it was given None
NoEndpoint ==
    [host |-> "", port |-> 0, opened |-> FALSE, connected |-> FALSE,
     stopped |-> FALSE, handled |-> FALSE]

\* the record of an interface call: its arguments, the interface argument as
\* the call found it (found), self.iface before it (held), the number of
\* endpoints before it (count), and its outcome
NoConn ==
    [op |-> "none", pi_host |-> "", pig_port |-> 0, interface |-> 0,
     found |-> NoEndpoint, held |-> 0, count |-> 0,
     ret |-> None, raised |-> "none", tr |-> <<>>]

\* the record of a call; fields a call does not use keep these values
NoCall ==
    [op |-> "none", pin |-> None, value |-> None, current |-> None, intended |-> None,
     duration_ms |-> 0, connected |-> FALSE, had_iface |-> FALSE,
     ret |-> None, raised |-> "none", tr |-> <<>>]

-----------------------------------------------------------------------------
(* The listener: requests and their handlers *)

\* how many requests are in the server at once
MaxRequests == 2

Handlers == 1..MaxRequests

\* request.args: the value of ch and of hw ("" when the parameter is absent)
\* and whether status is present
Args(ch, hw, status) == [ch |-> ch, hw |-> hw, status |-> status]
ArgSets ==
    {Args("", "", FALSE), Args("", "", TRUE), Args("", "on", FALSE), Args("", "off", FALSE),
     Args("on", "", FALSE), Args("off", "", FALSE), Args("on", "off", TRUE)}

\* SmartRequest.has_param: the parameter's values, or True, when the key exists
has_param(args, name) ==
    CASE name = "ch" -> args.ch # ""
      [] name = "hw" -> args.hw # ""
      [] OTHER       -> args.status

\* the mapping as it would be with hw listed before ch
MAPPING_HW_FIRST == <<"hw", "ch", "status">>

PARAM_TO_ACTION_MAPPING == <<"ch", "hw", "status">>

\* render_GET lines 138-143: the first key of the mapping the request carries
Present(args) == {k \in DOMAIN PARAM_TO_ACTION_MAPPING : has_param(args, PARAM_TO_ACTION_MAPPING[k])}
ActionOf(args) ==
    IF Present(args) = {} THEN "none"
    ELSE PARAM_TO_ACTION_MAPPING[CHOOSE k \in Present(args) : \A j \in Present(args) : k <= j]

\* the pins of a channel
TogglePin(chan) == IF chan = "hw" THEN hw_toggle_pin ELSE cw_toggle_pin
StatusPin(chan) == IF chan = "hw" THEN hw_status_pin ELSE cw_status_pin

\* HeatingController.set_hw / set_ch: the requested token as a boolean
Intended(args, chan) == IF (IF chan = "hw" THEN args.hw ELSE args.ch) = "on" THEN 1 ELSE 0

Idle == [pc |-> "idle", args |-> Args("", "", FALSE), action |-> "none",
         observed |-> 0, got |-> FALSE]
NoResponse == [form |-> "none", hw |-> 0, ch |-> 0]

ServerIdle ==
    /\ hs = [h \in Handlers |-> Idle]
    /\ running = 0
    /\ resp = NoResponse

-----------------------------------------------------------------------------
(* Spec: the pin calls *)

InitEndpoints ==
    {<<>>, <<Endpoint("localhost", 8888, TRUE)>>, <<Endpoint("localhost", 8888, FALSE)>>}

Init ==
    /\ eps \in InitEndpoints
    /\ iface = Len(eps)
    /\ level \in [Pins -> {0, 1}]
    /\ \A p \in TogglePins : level[p] = 0
    /\ call = NoCall
    /\ conn = NoConn
    /\ ServerIdle

Ran(op, pin, value, current, intended, duration_ms, result) ==
    \E r \in {result} :
    /\ call' = [op |-> op, pin |-> pin, value |-> value, current |-> current,
                intended |-> intended, duration_ms |-> duration_ms,
                connected |-> Dev(iface, eps, level).connected,
                had_iface |-> iface # 0,
                ret |-> r.ret, raised |-> r.raised, tr |-> r.tr]
    /\ level' = r.level
    /\ UNCHANGED <<eps, iface, conn, serverVars>>

CallWrite ==
    \E pin \in PinArgs, value \in ValueArgs, fault \in Faults :
        Ran("write", pin, value, None, None, 0,
            write(Dev(iface, eps, level), pin, value, fault))

CallRead ==
    \E pin \in PinArgs, fault \in Faults :
        Ran("read", pin, None, None, None, 0,
            read(Dev(iface, eps, level), pin, fault))

CallPulseOn ==
    \E pin \in TogglePins \cup {None}, ms \in Durations, f1 \in Faults, f2 \in Faults :
        Ran("pulse_on", pin, None, None, None, ms,
            pulse_on(Dev(iface, eps, level), pin, ms, f1, f2))

CallPulseIfDifferent ==
    \E cur \in StateArgs, int \in StateArgs, pin \in TogglePins \cup {None},
       ms \in Durations, f1 \in Faults, f2 \in Faults :
        Ran("pulse_if_different", pin, None, cur, int, ms,
            pulse_if_different(Dev(iface, eps, level), cur, int, pin, ms, f1, f2))

\* the relay is thrown by hand at the programmer: the status input changes
StatusChange ==
    /\ \E p \in StatusPins : level' = [level EXCEPT ![p] = 1 - level[p]]
    /\ UNCHANGED <<eps, iface, call, conn, serverVars>>

Next ==
    \/ CallWrite
    \/ CallRead
    \/ CallPulseOn
    \/ CallPulseIfDifferent
    \/ StatusChange

Spec == Init /\ [][Next]_vars

-----------------------------------------------------------------------------
(* SpecConn: the interface calls *)

InitConn ==
    /\ eps = <<>>
    /\ iface = 0
    /\ level = [p \in Pins |-> 0]
    /\ call = NoCall
    /\ conn = NoConn
    /\ ServerIdle

RanConn(op, pi_host, pig_port, interface, result) ==
    \E r \in {result} :
    /\ Len(r.eps) <= MaxEndpoints
    /\ conn' = [op |-> op, pi_host |-> pi_host, pig_port |-> pig_port,
                interface |-> interface,
                found |-> IF interface = 0 THEN NoEndpoint ELSE eps[interface],
                held |-> iface, count |-> Len(eps),
                ret |-> r.ret, raised |-> r.raised, tr |-> r.tr]
    /\ eps' = r.eps
    /\ iface' = r.iface
    /\ UNCHANGED <<level, call, serverVars>>

\* a connect to port 0 never succeeds
ConnectOutcomes(pig_port) == IF pig_port = 0 THEN {FALSE} ELSE BOOLEAN

\* the outcomes of stop() and of the connect are drawn only where the call
\* reaches them
StopOutcomes(needed) == IF needed /\ iface # 0 THEN StopFaults ELSE {"ok"}

CallGetOrBuild ==
    \E pi_host \in HostArgs, pig_port \in PortArgs, interface \in 0..Len(eps) :
        LET needed == need_to_generate_new_interface(eps, pi_host, pig_port, interface)
        IN  \E stopFault \in StopOutcomes(needed),
               ok \in (IF needed THEN ConnectOutcomes(pig_port) ELSE {TRUE}) :
                RanConn("get_or_build_interface", pi_host, pig_port, interface,
                        get_or_build_interface(eps, iface, pi_host, pig_port, interface,
                                               stopFault, ok))

CallGenerateNew ==
    \E pi_host \in HostArgs, pig_port \in PortArgs, stopFault \in StopOutcomes(TRUE) :
        \E ok \in ConnectOutcomes(pig_port) :
            RanConn("generate_new_interface", pi_host, pig_port, 0,
                    generate_new_interface(eps, iface, pi_host, pig_port, stopFault, ok))

\* the caller constructs a PiPinInterface of its own, to pass as interface
ExternalOpen ==
    /\ Len(eps) < MaxEndpoints
    /\ \E host \in Hosts, port \in Ports, ok \in BOOLEAN :
           eps' = Append(eps, Endpoint(host, port, ok))
    /\ UNCHANGED <<iface, level, call, conn, serverVars>>

NextConn ==
    \/ CallGetOrBuild
    \/ CallGenerateNew
    \/ ExternalOpen

SpecConn == InitConn /\ [][NextConn]_vars

-----------------------------------------------------------------------------
(* SpecServer: GET requests rendered by the reactor.  render_GET is split at  *)
(* each pin call, so that two requests in the server at once could interleave *)
(* if anything let them.                                                     *)

InitServer ==
    /\ eps \in {<<Endpoint("localhost", 8888, TRUE)>>, <<Endpoint("localhost", 8888, FALSE)>>}
    /\ iface = 1
    /\ level \in [Pins -> {0, 1}]
    /\ \A p \in TogglePins : level[p] = 0
    /\ call = NoCall
    /\ conn = NoConn
    /\ ServerIdle

\* the server as it would be with a worker per request
ReactorFreeThreaded == TRUE

\* reactor.run(): one thread takes a request when it is rendering no other
ReactorFree == running = 0

Device == Dev(iface, eps, level)

\* a request reaches the server
Arrive(h) ==
    /\ hs[h].pc = "idle"
    /\ \E args \in ArgSets : hs' = [hs EXCEPT ![h] = [Idle EXCEPT !.pc = "queued", !.args = args]]
    /\ UNCHANGED <<eps, iface, level, call, conn, running, resp>>

\* the reactor calls render_GET, which picks the action (lines 134-143)
Dispatch(h) ==
    /\ hs[h].pc = "queued"
    /\ ReactorFree
    /\ running' = h
    /\ LET action == ActionOf(hs[h].args)
       IN  hs' = [hs EXCEPT ![h].action = action,
                            ![h].pc = CASE action \in {"ch", "hw"} -> "set_read"
                                        [] action = "status"       -> "act_status"
                                        [] OTHER                   -> "check"]
    /\ UNCHANGED <<eps, iface, level, call, conn, resp>>

\* the handler is over: the response goes out and the reactor is free again
Finish(h, response) ==
    /\ resp' = response
    /\ hs' = [hs EXCEPT ![h] = Idle]
    /\ running' = 0

\* an exception leaves render_GET: the server answers with an error page
Fail(h) == Finish(h, [form |-> "error", hw |-> 0, ch |-> 0])

\* set_hw / set_ch: read the channel's status pin and compare
SetRead(h) ==
    /\ hs[h].pc = "set_read"
    /\ \E fault \in Faults : \E r \in {read(Device, StatusPin(hs[h].action), fault)} :
           hs' = [hs EXCEPT ![h].observed = r.ret,
                            ![h].got = Device.connected /\ fault = "ok",
                            ![h].pc = IF ShouldPulse(r.ret, Intended(hs[h].args, hs[h].action))
                                      THEN "write1" ELSE "check"]
    /\ UNCHANGED <<eps, iface, level, call, conn, running, resp>>

\* pulse_on, line 223: write(pin, 1)
PulseHigh(h) ==
    /\ hs[h].pc = "write1"
    /\ \E fault \in Faults : \E r \in {write(Device, TogglePin(hs[h].action), 1, fault)} :
           IF r.raised # "none"
           THEN Fail(h) /\ UNCHANGED level
           ELSE /\ level' = r.level
                /\ hs' = [hs EXCEPT ![h].pc = "sleep"]
                /\ UNCHANGED <<running, resp>>
    /\ UNCHANGED <<eps, iface, call, conn>>

\* pulse_on, line 224: sleep(duration_ms / 1000.0)
PulseWait(h) ==
    /\ hs[h].pc = "sleep"
    /\ sleep(pulse_duration_ms) = "none"
    /\ hs' = [hs EXCEPT ![h].pc = "write0"]
    /\ UNCHANGED <<eps, iface, level, call, conn, running, resp>>

\* pulse_on, line 225: write(pin, 0)
PulseLow(h) ==
    /\ hs[h].pc = "write0"
    /\ \E fault \in Faults : \E r \in {write(Device, TogglePin(hs[h].action), 0, fault)} :
           IF r.raised # "none"
           THEN Fail(h) /\ UNCHANGED level
           ELSE /\ level' = r.level
                /\ hs' = [hs EXCEPT ![h].pc = "reread"]
                /\ UNCHANGED <<running, resp>>
    /\ UNCHANGED <<eps, iface, call, conn>>

\* set_hw / set_ch: read the status pin again for the outcome
SetReread(h) ==
    /\ hs[h].pc = "reread"
    /\ hs' = [hs EXCEPT ![h].pc = "check"]
    /\ UNCHANGED <<eps, iface, level, call, conn, running, resp>>

\* action__status: check_status()
ActionStatus(h) ==
    /\ hs[h].pc = "act_status"
    /\ hs' = [hs EXCEPT ![h].pc = "check"]
    /\ UNCHANGED <<eps, iface, level, call, conn, running, resp>>

\* the end of render_GET as it would be if the response carried the value the
\* request asked for instead of the value check_status() read
CheckStatusIntended(h) ==
    /\ hs[h].pc = "check"
    /\ \E fh \in Faults, fc \in Faults :
           Finish(h, [form |-> IF hs[h].action # "none" THEN "json" ELSE "html",
                      hw |-> IF hs[h].action = "hw" THEN Intended(hs[h].args, "hw")
                             ELSE read(Device, hw_status_pin, fh).ret,
                      ch |-> IF hs[h].action = "ch" THEN Intended(hs[h].args, "ch")
                             ELSE read(Device, cw_status_pin, fc).ret])
    /\ UNCHANGED <<eps, iface, level, call, conn>>

\* render_GET lines 145-190: check_status() reads both status pins, and the
\* response is JSON when an action ran and the HTML page otherwise
CheckStatus(h) ==
    /\ hs[h].pc = "check"
    /\ \E fh \in Faults, fc \in Faults :
           Finish(h, [form |-> IF hs[h].action # "none" THEN "json" ELSE "html",
                      hw |-> read(Device, hw_status_pin, fh).ret,
                      ch |-> read(Device, cw_status_pin, fc).ret])
    /\ UNCHANGED <<eps, iface, level, call, conn>>

NextServer ==
    \E h \in Handlers :
        \/ Arrive(h)
        \/ Dispatch(h)
        \/ SetRead(h)
        \/ PulseHigh(h)
        \/ PulseWait(h)
        \/ PulseLow(h)
        \/ SetReread(h)
        \/ ActionStatus(h)
        \/ CheckStatus(h)

SpecServer == InitServer /\ [][NextServer]_vars

-----------------------------------------------------------------------------
(* Reading a call's effects *)

Range(s) == {s[i] : i \in DOMAIN s}
Only(tr, e) == SelectSeq(tr, LAMBDA ev : ev.e = e)
WriteAttempts(tr) == Only(tr, "write")
DaemonWrites(tr) == Only(tr, "iface.write")
Differ(c) == BoolOf(c.current) # BoolOf(c.intended)
Finished(op) == call.op = op /\ call.had_iface

-----------------------------------------------------------------------------
(* Claims on the pin calls, checked under Spec *)

\* C1 (debounce rule): a call of pulse_if_different makes a write of 1 to
\* output_pin exactly when bool(current) differs from bool(intended), and when
\* they are equal it makes no write to any pin, neither a call of write nor a
\* write at the daemon.
C1_Debounce ==
    call.op = "pulse_if_different" =>
        /\ (Ev("write", call.pin, 1) \in Range(call.tr)) <=> Differ(call)
        /\ ~Differ(call) => WriteAttempts(call.tr) = <<>> /\ DaemonWrites(call.tr) = <<>>

C1_Witness ==
    /\ Finished("pulse_if_different") /\ call.connected
    /\ call.current = 0 /\ call.intended = 1 /\ call.pin = hw_toggle_pin
    /\ Ev("iface.write", hw_toggle_pin, 1) \in Range(call.tr)

\* C2 (pulse symmetry): every execution of pulse_on for a real pin, here on a
\* connected endpoint, whatever the duration and whatever the daemon did with
\* the writes, has made a write attempt, and its last write attempt is a write
\* of 0 to that pin.
C2_PulseEndsLow ==
    (Finished("pulse_on") /\ call.connected /\ call.pin \in Pins) =>
        /\ WriteAttempts(call.tr) # <<>>
        /\ WriteAttempts(call.tr)[Len(WriteAttempts(call.tr))] = Ev("write", call.pin, 0)

\* C4 (fail-safe write): write(pin, v) on a device that holds an endpoint,
\* connected or not, returns v and raises nothing, whatever the daemon did.
C4_WriteFailSafe ==
    (Finished("write") /\ call.pin \in Pins) =>
        call.raised = "none" /\ call.ret = call.value

\* C5 (fail-safe read): read(pin) on a device that holds an endpoint raises
\* nothing; it returns the daemon's level of the pin when the endpoint is
\* connected and the daemon read succeeded, and 0 when the endpoint is
\* disconnected or the daemon read failed.
C5_ReadFailSafe ==
    (Finished("read") /\ call.pin \in Pins) =>
        LET got(v) == Ev("iface.read", call.pin, v) \in Range(call.tr)
        IN  /\ call.raised = "none"
            /\ \A v \in {0, 1} : (call.connected /\ got(v)) => call.ret = v
            /\ (~call.connected \/ ~(got(0) \/ got(1))) => call.ret = 0

C5_Witness ==
    /\ Finished("read") /\ call.connected /\ call.pin = hw_status_pin
    /\ Ev("iface.read", hw_status_pin, None) \in Range(call.tr)
    /\ call.ret = 0

\* C9 (single-pulse correctness): a call of pulse_if_different with an observed
\* and an intended value that differ, here on a connected endpoint, has made
\* exactly one pulse: one write of 1, the wait of duration_ms, one write of 0,
\* both writes on output_pin and no other write.
C9_SinglePulse ==
    (Finished("pulse_if_different") /\ call.connected /\ call.pin \in Pins
        /\ call.current \in {0, 1} /\ call.intended \in {0, 1} /\ Differ(call)) =>
        /\ Only(call.tr, "write") \o Only(call.tr, "sleep")
              = <<Ev("write", call.pin, 1), Ev("write", call.pin, 0),
                  Ev("sleep", call.duration_ms, 0)>>
        /\ \E i, j, k \in DOMAIN call.tr :
              /\ i < j /\ j < k
              /\ call.tr[i] = Ev("write", call.pin, 1)
              /\ call.tr[j] = Ev("sleep", call.duration_ms, 0)
              /\ call.tr[k] = Ev("write", call.pin, 0)

\* C16 (no I/O on a disconnected endpoint): a write or a read on a device whose
\* endpoint is not connected does not call the daemon's write or read; it
\* raises nothing, logs one error and returns the default (the value asked
\* for, or 0).
C16_NoIOWhenDisconnected ==
    (call.op \in {"write", "read"} /\ call.had_iface /\ ~call.connected) =>
        /\ Only(call.tr, "iface.write") = <<>> /\ Only(call.tr, "iface.read") = <<>>
        /\ call.raised = "none"
        /\ call.tr = <<Ev(call.op, call.pin, IF call.op = "write" THEN call.value ELSE 0),
                       Ev("log.error", call.pin, IF call.op = "write" THEN call.value ELSE 0)>>
        /\ call.ret = IF call.op = "write" THEN call.value ELSE 0

C16_Witness ==
    /\ call.op = "write" /\ call.had_iface /\ ~call.connected
    /\ call.pin = hw_toggle_pin /\ call.value = 1 /\ call.ret = 1

\* C17 (missing arguments never actuate): a call of pulse_if_different in which
\* current or intended is None, here with an output pin given and on a
\* connected endpoint, reports an error and makes no write to any pin.
C17_MissingArgsNoWrite ==
    (Finished("pulse_if_different") /\ call.connected /\ call.pin \in Pins
        /\ (call.current = None \/ call.intended = None)) =>
        /\ \E ev \in Range(call.tr) : ev.e = "log.error"
        /\ WriteAttempts(call.tr) = <<>> /\ DaemonWrites(call.tr) = <<>>

-----------------------------------------------------------------------------
(* Claims on the interface calls, checked under SpecConn *)

Rebuilt(c) == \E ev \in Range(c.tr) : ev.e = "connect"
Resolved == conn.op = "get_or_build_interface"
Live(ep) == ep.opened /\ ~ep.stopped

\* C3 as claimed (reconnect trigger set): get_or_build_interface builds a new
\* endpoint exactly when interface is None, or its host differs from pi_host,
\* or its port differs from pig_port, or it is not connected; otherwise it
\* returns the given endpoint and makes no connect call.
C3_TriggerSet_Claimed ==
    Resolved =>
        /\ Rebuilt(conn) <=>
              \/ conn.interface = 0
              \/ conn.found.host # conn.pi_host
              \/ conn.found.port # conn.pig_port
              \/ ~conn.found.connected
        /\ ~Rebuilt(conn) => conn.ret = conn.interface /\ conn.tr = <<>>

\* C3 as amended: a host or port difference counts only against a pi_host that
\* is not empty and a pig_port that is not 0.
C3_TriggerSet ==
    Resolved =>
        /\ Rebuilt(conn) <=>
              \/ conn.interface = 0
              \/ (conn.pi_host # "" /\ conn.found.host # conn.pi_host)
              \/ (conn.pig_port # 0 /\ conn.found.port # conn.pig_port)
              \/ ~conn.found.connected
        /\ ~Rebuilt(conn) =>
              conn.ret = conn.interface /\ conn.tr = <<>> /\ Len(eps) >= conn.count

C3_Witness ==
    /\ Resolved /\ conn.interface # 0 /\ conn.found.connected
    /\ conn.found.host = "hostB" /\ conn.pi_host = "hostB"
    /\ conn.found.port = 8889 /\ conn.pig_port = 8889
    /\ conn.ret = conn.interface /\ iface = conn.interface /\ ~Rebuilt(conn)

C8_OneLiveEndpoint ==
    /\ Cardinality({i \in DOMAIN eps : eps[i].handled /\ Live(eps[i])}) <= 1
    /\ (Resolved /\ Rebuilt(conn) /\ conn.interface # 0 /\ Live(conn.found)
           /\ conn.pi_host \in Hosts /\ conn.pig_port \in Ports) =>
           eps[conn.interface].stopped

\* C10 (old endpoint closed first): on a rebuild (here for a configured host
\* and port) that replaces an open endpoint passed as interface, that endpoint
\* is stopped before the new connection is constructed, the call raises
\* nothing and the new endpoint is installed.
C10_OldClosedFirst ==
    (Resolved /\ Rebuilt(conn) /\ conn.interface # 0 /\ Live(conn.found)
        /\ conn.pi_host \in Hosts /\ conn.pig_port \in Ports) =>
        /\ conn.raised = "none" /\ iface = conn.count + 1
        /\ \E i, j \in DOMAIN conn.tr :
              /\ i < j
              /\ conn.tr[i] = Ev("stop", conn.interface, 0)
              /\ conn.tr[j].e = "connect"

-----------------------------------------------------------------------------
(* Claims on the server, checked under SpecServer *)

\* the positions of a set request between its status read and the end of its pulse
InSetSequence == {"set_read", "write1", "sleep", "write0", "reread"}
Setting(h, chan) == hs[h].action = chan /\ hs[h].pc \in InSetSequence

\* C7 (serialization, no double toggle): two set requests on the same channel
\* are never both between their status read and the end of their pulse, and a
\* request about to pulse on a status it read from the daemon finds the status
\* pin still at the value it read.
C7_Serialized ==
    /\ \A chan \in {"ch", "hw"} : \A h1, h2 \in Handlers :
           (Setting(h1, chan) /\ Setting(h2, chan)) => h1 = h2
    /\ \A h \in Handlers :
           (hs[h].pc = "write1" /\ hs[h].got) =>
               hs[h].observed = level[StatusPin(hs[h].action)]

C7_Witness ==
    \E h1, h2 \in Handlers :
        /\ h1 # h2
        /\ hs[h1].action = "hw" /\ hs[h1].pc = "sleep" /\ hs[h1].got
        /\ hs[h2].pc = "queued" /\ hs[h2].args.hw = "on" /\ hs[h2].args.ch = ""

\* the step in which render_GET of request h comes to its end
Answers(h) == hs[h].pc # "idle" /\ hs'[h].pc = "idle"

\* value is what a read of the status pin returns in the present state
ReadNow(pin, value) == \E fault \in Faults : read(Device, pin, fault).ret = value

\* C11 (degraded availability): while the endpoint is disconnected, no step
\* changes a pin (no daemon write), every status read of a set request yields
\* 0, and every request ends in a JSON or HTML response that reports both
\* channels off.
C11_DegradedAvailability ==
    [][~Device.connected =>
          /\ level' = level
          /\ \A h \in Handlers :
                /\ hs'[h].observed = 0
                /\ Answers(h) =>
                      /\ resp'.form \in {"json", "html"}
                      /\ resp'.hw = 0 /\ resp'.ch = 0]_vars

C11_Witness ==
    /\ ~Device.connected
    /\ resp.form = "json" /\ resp.hw = 0 /\ level[hw_status_pin] = 1
    /\ \E h \in Handlers :
          /\ hs[h].pc = "reread" /\ hs[h].action = "ch" /\ hs[h].args.ch = "on"
          /\ level[cw_toggle_pin] = 0 /\ level[cw_status_pin] = 0

\* the positions of a pulse between its write of 1 and its write of 0, and the
\* positions from which a request reads the status pin of a channel
MidPulse(h, chan) == hs[h].action = chan /\ hs[h].pc \in {"sleep", "write0"}
ReadsStatus(h, chan) ==
    \/ hs[h].pc \in {"act_status", "check"}
    \/ hs[h].pc \in {"set_read", "reread"} /\ hs[h].action = chan

\* C12 (a pulse is atomic for callers): while a pulse on a channel is between
\* its write of 1 and its write of 0, no request is at a status read of that
\* channel, and the server is rendering the pulsing request only.
C12_PulseAtomic ==
    \A chan \in {"ch", "hw"} : \A h1 \in Handlers :
        MidPulse(h1, chan) =>
            /\ running = h1
            /\ \A h2 \in Handlers : ~ReadsStatus(h2, chan)

C12_Witness ==
    \E h1, h2 \in Handlers :
        /\ MidPulse(h1, "ch") /\ level[cw_toggle_pin] = 1
        /\ hs[h2].pc = "queued" /\ hs[h2].args = Args("", "", TRUE)

\* C14 (response form): a request that carries ch, hw or status is answered
\* with the JSON payload, and a request that carries none of them with the
\* HTML page.
C14_ResponseForm ==
    [][\A h \in Handlers :
          Answers(h) =>
              resp'.form = IF hs[h].args.ch # "" \/ hs[h].args.hw # "" \/ hs[h].args.status
                           THEN "json" ELSE "html"]_vars

\* C15 (reported status is fresh and post-actuation): a JSON or HTML response
\* leaves a request at its check_status position, which a set request enters
\* only when it did not pulse or after its write of 0, and the values in the
\* response are what a read of the status pins returns at that step.
C15_FreshStatus ==
    [][\A h \in Handlers :
          /\ (Answers(h) /\ resp'.form \in {"json", "html"}) =>
                /\ hs[h].pc = "check"
                /\ ReadNow(hw_status_pin, resp'.hw)
                /\ ReadNow(cw_status_pin, resp'.ch)
          /\ (hs'[h].pc = "reread" /\ hs[h].pc # "reread") => hs[h].pc = "write0"
          /\ (hs'[h].pc = "check" /\ hs[h].pc # "check") =>
                hs[h].pc \in {"queued", "act_status", "reread", "set_read"}
          /\ (hs'[h].pc = "check" /\ hs[h].pc = "set_read") =>
                ~ShouldPulse(hs'[h].observed, Intended(hs[h].args, hs[h].action))]_vars

C15_Witness ==
    \E h \in Handlers :
        /\ hs[h].pc = "check" /\ hs[h].action = "hw" /\ hs[h].args.hw = "off"
        /\ hs[h].got /\ hs[h].observed = 1
        /\ level[hw_status_pin] = 0 /\ level[hw_toggle_pin] = 0

\* the first of ch, hw, status a request carries
FirstPresent(args) ==
    IF args.ch # "" THEN "ch" ELSE IF args.hw # "" THEN "hw"
    ELSE IF args.status THEN "status" ELSE "none"

\* C18 (one action per request): a request being rendered runs the action of
\* the first of ch, hw, status it carries and pulses for that action only; while
\* a request that carries ch is rendered, the hot-water output pin does not
\* change.
C18_OneAction ==
    [][\A h \in Handlers :
          /\ (hs'[h].pc \notin {"idle", "queued"}) =>
                /\ hs'[h].action = FirstPresent(hs'[h].args)
                /\ (hs'[h].pc \in {"write1", "sleep", "write0"}) =>
                      hs'[h].action \in {"ch", "hw"}
          /\ (running = h /\ hs[h].args.ch # "") =>
                level'[hw_toggle_pin] = level[hw_toggle_pin]]_vars

C18_Witness ==
    \E h \in Handlers :
        /\ hs[h].args = Args("on", "off", TRUE) /\ hs[h].pc = "write0"
        /\ hs[h].action = "ch"
        /\ level[cw_toggle_pin] = 1 /\ level[hw_toggle_pin] = 0
        /\ level[hw_status_pin] = 1

\* C19 (held endpoint equals returned endpoint): after a call of
\* get_or_build_interface, self.iface is the endpoint the call returned: the
\* endpoint it built on a rebuild, the given endpoint otherwise.
C19_HeldIsReturned ==
    Resolved =>
        /\ conn.raised = "none" /\ conn.ret # None /\ iface = conn.ret
        /\ conn.ret = IF Rebuilt(conn) THEN conn.count + 1 ELSE conn.interface

C19_Witness ==
    /\ Resolved /\ ~Rebuilt(conn)
    /\ conn.interface # 0 /\ conn.held # conn.interface /\ conn.held # 0
    /\ iface = conn.interface

\* C13 (endpoint rebuilds are serialized): the calls run one at a time, and
\* after each of them (here a call for a configured host and port) every
\* endpoint the calls were given or built that was opened is held in self.iface
\* or has been stopped, and the call has made at most one connect.
C13_SerializedRebuilds ==
    (conn.op # "none" /\ conn.pi_host \in Hosts /\ conn.pig_port \in Ports) =>
        /\ \A i \in DOMAIN eps :
              (eps[i].handled /\ eps[i].opened) => (i = iface \/ eps[i].stopped)
        /\ Len(Only(conn.tr, "connect")) <= 1

====
